---------------------------- MODULE Spec2Model ----------------------------
(***************************************************************************)
(* A model of project.py: the 5-card poker hand evaluator, the deal state  *)
(* (PokerState) and the Monte Carlo tree search (MCTSNode, simulate, mcts) *)
(* that estimates hero's equity against one random opponent hand.          *)
(*                                                                         *)
(* Representation.  A Card is the integer 4*rank_value + suit index, which *)
(* is its position in get_deck() (ranks outer, suits inner); Card equality *)
(* is equality of (rank, suit), hence of the integer.  Python lists and    *)
(* tuples are sequences.  wins holds TWICE the code's float (payoffs 0,    *)
(* 0.5 and 1 are 0, 1 and 2), so that it stays an integer.                 *)
(***************************************************************************)
EXTENDS Integers, Sequences, FiniteSets, TLC

VARIABLES
    \* ---- hand evaluator calls (specification SpecEval)
    five_cards,      \* the argument list of the call
    eval_out,        \* what evaluate_hand(five_cards) returned or raised
    straight_out,    \* what check_straight(ranks of five_cards) returned
    best_out,        \* what find_best_5_card_hand(first two, rest) returned
    \* ---- one get_possible_actions call (specification SpecState)
    state_in,        \* the PokerState the method is called on
    actions_out,     \* the list it returned
    \* ---- one query mcts(root_state, n_sim) (specification Spec)
    tree,            \* the MCTSNode objects, in order of creation; tree[1] is root
    n_sim,           \* the argument n_sim
    iter,            \* iterations of the for loop completed
    pc,              \* where mcts is: "loop", "select", "simulate", "backprop", "done"
    node,            \* the local variable node (an index into tree; 0 is None)
    result,          \* the local variable result (twice the payoff)
    estimate,        \* the returned root.wins / root.visits, as <<numerator, denominator>>
    \* ---- history variables (not program state)
    made,            \* per node: the action that made it, the list sampled at its creation
    path,            \* the nodes selection and expansion went through in this iteration
    passes,          \* per node: completed iterations whose path contained it
    rollout,         \* the last simulate call: branch taken, opponent cards, board
    before           \* per node: <<visits, wins>> when this iteration began

evalVars == <<five_cards, eval_out, straight_out, best_out>>
stateVars == <<state_in, actions_out>>
mctsVars == <<tree, n_sim, iter, pc, node, result, estimate, made, path, passes, rollout,
              before>>
vars == <<evalVars, stateVars, mctsVars>>

-----------------------------------------------------------------------------
(* Card                                                                    *)

NumRanks == 13
NumSuits == 4

rank_value(c) == c \div NumSuits
suit_str(c) == c % NumSuits

\* Card.rank_values['5'] and Card.rank_values['A'], as check_straight names them
RankFive == 3
RankAce == 12

Range(s) == {s[i] : i \in 1..Len(s)}

-----------------------------------------------------------------------------
(* Python values: a tuple, None, or a raised ValueError                    *)

Tuple(t) == [kind |-> "tuple", val |-> t]
NoneValue == [kind |-> "None", val |-> <<>>]
ValueError == [kind |-> "ValueError", val |-> <<>>]
NotCalled == [kind |-> "not called", val |-> <<>>]

\* Python's tuple order: the first differing element decides, and a proper
\* prefix is smaller.
TupleLess(a, b) ==
    LET n == IF Len(a) < Len(b) THEN Len(a) ELSE Len(b)
        diff == {i \in 1..n : a[i] # b[i]}
    IN  IF diff = {}
        THEN Len(a) < Len(b)
        ELSE LET k == CHOOSE i \in diff : \A j \in diff : i <= j
             IN  a[k] < b[k]

\* sorted(xs, reverse=True) on integers
RECURSIVE SortedDesc(_)
SortedDesc(s) ==
    IF s = <<>> THEN <<>>
    ELSE LET rest == SortedDesc(Tail(s))
             k == Cardinality({i \in 1..Len(rest) : rest[i] >= Head(s)})
         IN  SubSeq(rest, 1, k) \o <<Head(s)>> \o SubSeq(rest, k + 1, Len(rest))

\* sorted(S) / sorted(S, reverse=True) on a set of integers
RECURSIVE SetSortedAsc(_)
SetSortedAsc(S) ==
    IF S = {} THEN <<>>
    ELSE LET m == CHOOSE x \in S : \A y \in S : x <= y
         IN  <<m>> \o SetSortedAsc(S \ {m})

RECURSIVE SetSortedDesc(_)
SetSortedDesc(S) ==
    IF S = {} THEN <<>>
    ELSE LET m == CHOOSE x \in S : \A y \in S : x >= y
         IN  <<m>> \o SetSortedDesc(S \ {m})

\* sorted(cards, key=rank_value, reverse=True): stable
RECURSIVE sorted_by_rank(_)
sorted_by_rank(cards) ==
    IF cards = <<>> THEN <<>>
    ELSE LET rest == sorted_by_rank(Tail(cards))
             k == Cardinality({i \in 1..Len(rest) :
                                 rank_value(rest[i]) > rank_value(Head(cards))})
         IN  SubSeq(rest, 1, k) \o <<Head(cards)>> \o SubSeq(rest, k + 1, Len(rest))

\* [x for x in s if P(x)]
RECURSIVE Filter(_, _)
Filter(s, keep) ==
    IF s = <<>> THEN <<>>
    ELSE IF Head(s) \in keep THEN <<Head(s)>> \o Filter(Tail(s), keep)
         ELSE Filter(Tail(s), keep)

-----------------------------------------------------------------------------
(* check_straight(ranks): (True, high) or (False, None); None is NoRank    *)

NoRank == -1

\* check_straight with the wheel's high card read off the sorted ranks (the Ace)
check_straight_wheel_ace(ranks) ==
    LET unique_sorted_ranks == SetSortedAsc(Range(ranks))
        n == Len(unique_sorted_ranks)
        is_regular_straight ==
            \A i \in 1..(n - 1) : unique_sorted_ranks[i] + 1 = unique_sorted_ranks[i + 1]
    IN  IF n < 5 THEN [is_straight |-> FALSE, high |-> NoRank]
        ELSE IF is_regular_straight \/ Range(unique_sorted_ranks) = {0, 1, 2, 3, 12}
             THEN [is_straight |-> TRUE, high |-> unique_sorted_ranks[n]]
        ELSE [is_straight |-> FALSE, high |-> NoRank]

check_straight(ranks) ==
    LET unique_sorted_ranks == SetSortedAsc(Range(ranks))
        n == Len(unique_sorted_ranks)
        is_regular_straight ==
            \A i \in 1..(n - 1) : unique_sorted_ranks[i] + 1 = unique_sorted_ranks[i + 1]
        ace_low_values == {0, 1, 2, RankFive, RankAce}
    IN  IF n < 5 THEN [is_straight |-> FALSE, high |-> NoRank]
        ELSE IF is_regular_straight
             THEN [is_straight |-> TRUE, high |-> unique_sorted_ranks[n]]
        ELSE IF Range(unique_sorted_ranks) = ace_low_values
             THEN [is_straight |-> TRUE, high |-> RankFive]
        ELSE [is_straight |-> FALSE, high |-> NoRank]

-----------------------------------------------------------------------------
(* evaluate_hand(five_cards)                                               *)

\* the rank evaluate_hand takes for a group of `size` equal cards:
\* unique_ranks[0] if its count is `size`, else unique_ranks[1]
FirstOrSecond(unique_ranks, rank_counts, size) ==
    IF rank_counts[unique_ranks[1]] = size THEN unique_ranks[1] ELSE unique_ranks[2]

\* Counter(xs): each element's number of occurrences
Counter(xs) ==
    [r \in Range(xs) |-> Cardinality({i \in 1..Len(xs) : xs[i] = r})]

\* the values of a Counter, listed by the given keys
RECURSIVE Values(_, _)
Values(counts, keys) ==
    IF keys = <<>> THEN <<>>
    ELSE <<counts[Head(keys)]>> \o Values(counts, Tail(keys))

evaluate_hand(cards) ==
    IF Len(cards) # 5 THEN ValueError
    ELSE
    LET sorted_cards == sorted_by_rank(cards)
        ranks == <<rank_value(sorted_cards[1]), rank_value(sorted_cards[2]),
                   rank_value(sorted_cards[3]), rank_value(sorted_cards[4]),
                   rank_value(sorted_cards[5])>>
        suits == <<suit_str(sorted_cards[1]), suit_str(sorted_cards[2]),
                   suit_str(sorted_cards[3]), suit_str(sorted_cards[4]),
                   suit_str(sorted_cards[5])>>
        rank_counts == Counter(ranks)
        unique_ranks == SetSortedDesc(DOMAIN rank_counts)
        counts_list == SortedDesc(Values(rank_counts, unique_ranks))
        is_flush == \E s \in 0..(NumSuits - 1) :
                        Cardinality({i \in 1..5 : suits[i] = s}) = 5
        straight == check_straight(ranks)
        is_straight == straight.is_straight
        without(rs) == Filter(unique_ranks, Range(unique_ranks) \ rs)
        pairs == {r \in DOMAIN rank_counts : rank_counts[r] = 2}
    IN  IF is_flush /\ is_straight THEN Tuple(<<9, straight.high>>)
        ELSE IF counts_list[1] = 4
        THEN LET quad_rank == FirstOrSecond(unique_ranks, rank_counts, 4)
             IN  Tuple(<<8, quad_rank, without({quad_rank})[1]>>)
        ELSE IF counts_list[1] = 3 /\ counts_list[2] = 2
        THEN Tuple(<<7, FirstOrSecond(unique_ranks, rank_counts, 3),
                        FirstOrSecond(unique_ranks, rank_counts, 2)>>)
        ELSE IF is_flush THEN Tuple(<<6>> \o unique_ranks)
        ELSE IF is_straight THEN Tuple(<<5, straight.high>>)
        ELSE IF counts_list[1] = 3
        THEN LET trip_rank == FirstOrSecond(unique_ranks, rank_counts, 3)
             IN  Tuple(<<4, trip_rank>> \o without({trip_rank}))
        ELSE IF counts_list[1] = 2 /\ counts_list[2] = 2
        THEN LET pair_ranks == SetSortedDesc(pairs)
             IN  Tuple(<<3>> \o pair_ranks \o <<without(pairs)[1]>>)
        ELSE IF counts_list[1] = 2
        THEN LET pair_rank == SetSortedDesc(pairs)[1]
             IN  Tuple(<<2, pair_rank>> \o without({pair_rank}))
        ELSE Tuple(<<1>> \o unique_ranks)

-----------------------------------------------------------------------------
(* find_best_5_card_hand(hole_cards, community_cards)                      *)

\* list(itertools.combinations(xs, k)): by position, in lexicographic order
RECURSIVE combinations(_, _)
combinations(xs, k) ==
    IF k = 0 THEN << <<>> >>
    ELSE IF Len(xs) < k THEN <<>>
    ELSE LET with == combinations(Tail(xs), k - 1)
             without == combinations(Tail(xs), k)
         IN  [i \in 1..Len(with) |-> <<Head(xs)>> \o with[i]] \o without

\* max() over a non-empty list of tuples: the first maximal element
RECURSIVE MaxFrom(_, _, _)
MaxFrom(xs, i, best) ==
    IF i > Len(xs) THEN best
    ELSE MaxFrom(xs, i + 1, IF TupleLess(best, xs[i]) THEN xs[i] ELSE best)

MaxTuple(xs) == MaxFrom(xs, 2, xs[1])

find_best_5_card_hand(hole_cards, community_cards) ==
    LET all_7_cards == hole_cards \o community_cards
        combos == combinations(all_7_cards, 5)
    IN  IF Len(all_7_cards) < 5 THEN NoneValue
        ELSE Tuple(MaxTuple([i \in 1..Len(combos) |-> evaluate_hand(combos[i]).val]))

-----------------------------------------------------------------------------
(* Calls of the evaluator on bounded inputs                                *)

\* The hands tried: every multiset of five ranks (no rank five times), the
\* cards of one rank taking suits 0, 1, 2, ... in turn; `off` moves the
\* last card to another suit when its rank is single (so a hand of five
\* different ranks comes both as a flush and not); `shift` rotates all suits.
HandOf(rs, off, shift) ==
    [i \in 1..5 |->
        LET dup == Cardinality({j \in 1..(i - 1) : rs[j] = rs[i]})
            s == IF off /\ i = 5 /\ dup = 0 THEN 1 ELSE dup
        IN  NumSuits * rs[i] + ((s + shift) % NumSuits)]

\* a card that is not in the hand
Spare(h) == CHOOSE c \in 0..(NumRanks * NumSuits - 1) :
                c \notin Range(h) /\ \A d \in 0..(c - 1) : d \in Range(h)

EvalIdle ==
    /\ five_cards = <<>>
    /\ eval_out = NotCalled
    /\ straight_out = NotCalled
    /\ best_out = NotCalled

StateIdle ==
    /\ state_in = [my |-> <<>>, opp |-> <<>>, board |-> <<>>, deck |-> <<>>]
    /\ actions_out = NotCalled

MctsIdle ==
    /\ tree = <<>>
    /\ n_sim = 0
    /\ iter = 0
    /\ pc = "idle"
    /\ node = 0
    /\ result = 0
    /\ estimate = <<>>
    /\ made = <<>>
    /\ path = <<>>
    /\ passes = <<>>
    /\ rollout = [branch |-> "none", opp |-> <<>>, board |-> <<>>]
    /\ before = <<>>

EvalInit ==
    /\ \E r1 \in 0..(NumRanks - 1) : \E r2 \in r1..(NumRanks - 1) :
       \E r3 \in r2..(NumRanks - 1) : \E r4 \in r3..(NumRanks - 1) :
       \E r5 \in r4..(NumRanks - 1) : \E off \in BOOLEAN : \E size \in 4..6 :
          /\ r1 # r5
          /\ LET h == HandOf(<<r1, r2, r3, r4, r5>>, off, r1 % NumSuits)
             IN  five_cards = CASE size = 4 -> SubSeq(h, 1, 4)
                                [] size = 5 -> h
                                [] size = 6 -> h \o <<Spare(h)>>
    /\ eval_out = NotCalled
    /\ straight_out = NotCalled
    /\ best_out = NotCalled
    /\ StateIdle
    /\ MctsIdle

EvaluateHand ==
    /\ eval_out = NotCalled
    /\ eval_out' = evaluate_hand(five_cards)
    /\ UNCHANGED <<five_cards, straight_out, best_out, stateVars, mctsVars>>

CheckStraight ==
    /\ straight_out = NotCalled
    /\ Len(five_cards) = 5
    /\ straight_out' = [kind |-> "pair",
                        val |-> check_straight([i \in 1..5 |-> rank_value(five_cards[i])])]
    /\ UNCHANGED <<five_cards, eval_out, best_out, stateVars, mctsVars>>

FindBest ==
    /\ best_out = NotCalled
    /\ best_out' = find_best_5_card_hand(SubSeq(five_cards, 1, 2),
                                         SubSeq(five_cards, 3, Len(five_cards)))
    /\ UNCHANGED <<five_cards, eval_out, straight_out, stateVars, mctsVars>>

EvalNext == EvaluateHand \/ CheckStraight \/ FindBest

SpecEval == EvalInit /\ [][EvalNext]_vars

-----------------------------------------------------------------------------
(* Deck and PokerState                                                     *)

\* The deck of the model is the first DeckSize cards of the code's 52-card
\* get_deck(): 2c 2d 2h 2s 3c 3d 3h 3s 4c ...  At least 9 cards are needed to
\* deal two hands and a board.
DeckSize == 9

\* The code samples at most 1000 actions per node; the model scales the cap.
SampleCap == 2

get_deck == [i \in 1..DeckSize |-> i - 1]

Min(a, b) == IF a < b THEN a ELSE b

\* list.remove(x) when x is in the list: drops the first occurrence
RemoveFirst(s, x) ==
    IF x \notin Range(s) THEN s
    ELSE LET k == CHOOSE i \in 1..Len(s) : s[i] = x /\ \A j \in 1..(i - 1) : s[j] # x
         IN  SubSeq(s, 1, k - 1) \o SubSeq(s, k + 1, Len(s))

RECURSIVE RemoveAll(_, _)
RemoveAll(s, xs) ==
    IF xs = <<>> THEN s ELSE RemoveAll(RemoveFirst(s, Head(xs)), Tail(xs))

\* PokerState.__init__ without the removal of the cards in play
PokerState_keeps_cards_in_play(my_cards, opp_cards, board, deck) ==
    [my |-> my_cards, opp |-> opp_cards, board |-> board,
     deck |-> IF deck # <<>> THEN deck ELSE get_deck]

\* PokerState.__init__; None and [] are both <<>> (the code tests truthiness)
PokerState(my_cards, opp_cards, board, deck) ==
    LET base == IF deck # <<>> THEN deck ELSE get_deck
        cards_in_play == Range(my_cards) \cup Range(opp_cards) \cup Range(board)
    IN  [my |-> my_cards, opp |-> opp_cards, board |-> board,
         deck |-> Filter(base, Range(base) \ cards_in_play)]

\* random.choices in place of random.sample: positions may repeat
sample_with_replacement(population, k) ==
    {[i \in 1..k |-> population[p[i]]] : p \in [1..k -> 1..Len(population)]}

\* random.sample(population, k): k different positions, in any order
sample(population, k) ==
    {[i \in 1..k |-> population[p[i]]] :
        p \in {q \in [1..k -> 1..Len(population)] :
                 \A i, j \in 1..k : i # j => q[i] # q[j]}}

\* get_possible_actions dealing the flop one card at a time
get_possible_actions_single_flop(self) ==
    LET n == Len(self.deck)
        singles == [i \in 1..n |-> <<self.deck[i]>>]
    IN  IF self.opp = <<>>
        THEN IF n < 2 THEN {<<>>}
             ELSE sample(combinations(self.deck, 2),
                         Min(SampleCap, (n * (n - 1)) \div 2))
        ELSE IF Len(self.board) < 5
        THEN IF n = 0 THEN {<<>>} ELSE sample(singles, Min(SampleCap, n))
        ELSE {<<>>}

\* get_possible_actions: the lists the call can return.  An action is the
\* sequence of cards dealt; a turn or river action, a single Card in the
\* code, is the one-card sequence that perform_action makes of it.
get_possible_actions(self) ==
    LET n == Len(self.deck)
        singles == [i \in 1..n |-> <<self.deck[i]>>]
    IN  IF self.opp = <<>>
        THEN IF n < 2 THEN {<<>>}
             ELSE sample(combinations(self.deck, 2),
                         Min(SampleCap, (n * (n - 1)) \div 2))
        ELSE IF Len(self.board) = 0
        THEN IF n < 3 THEN {<<>>}
             ELSE sample(combinations(self.deck, 3),
                         Min(SampleCap, (n * (n - 1) * (n - 2)) \div 6))
        ELSE IF Len(self.board) = 3
        THEN IF n = 0 THEN {<<>>} ELSE sample(singles, Min(SampleCap, n))
        ELSE IF Len(self.board) = 4
        THEN IF n = 0 THEN {<<>>} ELSE sample(singles, Min(SampleCap, n))
        ELSE {<<>>}

\* perform_action dealing from self.deck itself instead of a copy of it
perform_action_in_place(self, action) ==
    LET left == Filter(self.deck, Range(self.deck) \ Range(action))
    IN  [receiver |-> [self EXCEPT !.deck = left],
         returned |-> [my |-> self.my,
                       opp |-> IF self.opp = <<>> THEN action ELSE self.opp,
                       board |-> IF self.opp = <<>> THEN self.board
                                 ELSE self.board \o action,
                       deck |-> left]]

\* perform_action: the receiver as the call leaves it, and the state returned.
\* The method works on copies (list(self.my), list(self.opp), list(self.board),
\* list(self.deck)), so the receiver is left as it was.
perform_action(self, action) ==
    LET cards_dealt == action
        new_deck_for_child == RemoveAll(self.deck, cards_dealt)
        new_opp_cards == IF self.opp = <<>> THEN cards_dealt ELSE self.opp
        new_board == IF self.opp = <<>> THEN self.board ELSE self.board \o cards_dealt
    IN  [receiver |-> self,
         returned |-> PokerState(self.my, new_opp_cards, new_board, new_deck_for_child)]

-----------------------------------------------------------------------------
(* One call of get_possible_actions on a bounded family of states          *)

\* the first k cards of get_deck() that are not in `used`
FirstFree(used, k) == SubSeq(Filter(get_deck, Range(get_deck) \ used), 1, k)

BoardSizes == {0, 3, 4, 5}

\* Largest deck passed to the constructor explicitly
MaxGivenDeck == 4

StateInit ==
    /\ \E h1 \in 0..1 : \E h2 \in 1..2 : \E ncards \in {0, 2} :
       \E nb \in BoardSizes : \E given \in 0..MaxGivenDeck :
          LET my == <<h1, h2>>
              opp == FirstFree(Range(my), ncards)
              board == FirstFree(Range(my) \cup Range(opp), nb)
              deck == SubSeq(get_deck, DeckSize - given + 1, DeckSize)
          IN  state_in = PokerState(my, opp, board, deck)
    /\ actions_out = NotCalled
    /\ EvalIdle
    /\ MctsIdle

GetPossibleActions ==
    /\ actions_out = NotCalled
    /\ \E acts \in get_possible_actions(state_in) :
          actions_out' = [kind |-> "list", val |-> acts]
    /\ UNCHANGED <<state_in, evalVars, mctsVars>>

StateNext == GetPossibleActions

SpecState == StateInit /\ [][StateNext]_vars

-----------------------------------------------------------------------------
(* simulate(state): the rollouts the call can make                         *)

\* The shuffle decides which cards are popped.  A rollout is given by the
\* cards drawn for the opponent and for the board; each drawn group is listed
\* in deck order, the order within a group having no effect on the hands
\* (find_best_5_card_hand takes the maximum over all combinations).
\* the showdown scoring a win as 2 (4 when doubled)
Showdown_win_counts_double(state, current_opp_cards, current_board) ==
    LET mine == find_best_5_card_hand(state.my, current_board).val
        theirs == find_best_5_card_hand(current_opp_cards, current_board).val
    IN  [payoff |-> IF TupleLess(theirs, mine) THEN 4 ELSE IF mine = theirs THEN 1 ELSE 0,
         branch |-> "showdown", opp |-> current_opp_cards, board |-> current_board]

Showdown(state, current_opp_cards, current_board) ==
    LET my_final_score == find_best_5_card_hand(state.my, current_board).val
        opp_final_score == find_best_5_card_hand(current_opp_cards, current_board).val
    IN  [payoff |-> IF TupleLess(opp_final_score, my_final_score) THEN 2
                    ELSE IF my_final_score = opp_final_score THEN 1
                    ELSE 0,
         branch |-> "showdown", opp |-> current_opp_cards, board |-> current_board]

\* the board loop written `while len(current_board) <= 5`
DealBoard_one_card_more(state, current_opp_cards, temp_deck) ==
    LET need == 6 - Len(state.board)
    IN  IF need > Len(temp_deck)
        THEN {[payoff |-> 0, branch |-> "no board card", opp |-> current_opp_cards,
               board |-> state.board \o temp_deck]}
        ELSE {Showdown(state, current_opp_cards, state.board \o drawn) :
                 drawn \in Range(combinations(temp_deck, need))}

\* the board dealt from a fresh get_deck() instead of the cards left
DealBoard_from_fresh_deck(state, current_opp_cards, temp_deck) ==
    LET need == 5 - Len(state.board)
    IN  IF need > Len(temp_deck)
        THEN {[payoff |-> 0, branch |-> "no board card", opp |-> current_opp_cards,
               board |-> state.board \o temp_deck]}
        ELSE {Showdown(state, current_opp_cards, state.board \o drawn) :
                 drawn \in Range(combinations(get_deck, IF need > 0 THEN need ELSE 0))}

DealBoard(state, current_opp_cards, temp_deck) ==
    LET need == 5 - Len(state.board)
    IN  IF need > Len(temp_deck)
        THEN {[payoff |-> 0, branch |-> "no board card", opp |-> current_opp_cards,
               board |-> state.board \o temp_deck]}
        ELSE {Showdown(state, current_opp_cards, state.board \o drawn) :
                 drawn \in Range(combinations(temp_deck, IF need > 0 THEN need ELSE 0))}

simulate(state) ==
    IF state.opp = <<>>
    THEN IF Len(state.deck) < 2
         THEN {[payoff |-> 0, branch |-> "no opponent card", opp |-> <<>>,
                board |-> state.board]}
         ELSE UNION {DealBoard(state, o, RemoveAll(state.deck, o)) :
                        o \in Range(combinations(state.deck, 2))}
    ELSE DealBoard(state, state.opp, state.deck)

-----------------------------------------------------------------------------
(* MCTSNode                                                                *)

\* MCTSNode.__init__ dropping its parent argument
MCTSNode_without_parent(state, parent, actions) ==
    [state |-> state, parent |-> 0, children |-> <<>>, visits |-> 0,
     wins |-> 0, untried_actions |-> actions]

\* MCTSNode.__init__, given the list get_possible_actions returned
MCTSNode(state, parent, actions) ==
    [state |-> state, parent |-> parent, children |-> <<>>, visits |-> 0,
     wins |-> 0, untried_actions |-> actions]

\* round(10^8 * ln(p)) for p = 1, 2, ...: math.log
LnE8 == <<0, 69314718, 109861229, 138629436, 160943791, 179175947, 194591015,
          207944154, 219722458, 230258509, 239789527, 248490665, 256494936,
          263905733, 270805020, 277258872>>

\* the integer square root
RECURSIVE IsqrtIn(_, _, _)
IsqrtIn(x, lo, hi) ==
    IF lo >= hi THEN lo
    ELSE LET mid == (lo + hi + 1) \div 2
         IN  IF mid * mid <= x THEN IsqrtIn(x, mid, hi) ELSE IsqrtIn(x, lo, mid - 1)

Isqrt(x) == IsqrtIn(x, 0, 32767)

Infinity == 1073741823

\* ucb1 of node i, in units of 10^-4 (rounded down):
\* wins/visits + sqrt(2) * sqrt(ln(parent.visits) / visits).  For the visit
\* counts of the model (parent.visits <= 12) two children compare by this
\* value exactly as they compare by the code's floats.
ucb1(t, i) ==
    IF t[i].visits = 0 THEN Infinity
    ELSE (t[i].wins * 10000) \div (2 * t[i].visits)
         + Isqrt((2 * LnE8[t[t[i].parent].visits]) \div t[i].visits)

\* select_child keeping the last child of maximal ucb1 (a scan with >=)
select_child_last_max(t, n) ==
    LET children == t[n].children
        unvisited_children == {k \in 1..Len(children) : t[children[k]].visits = 0}
        best == CHOOSE k \in 1..Len(children) :
                    /\ \A j \in 1..Len(children) : ucb1(t, children[j]) <= ucb1(t, children[k])
                    /\ \A j \in (k + 1)..Len(children) :
                          ucb1(t, children[j]) < ucb1(t, children[k])
    IN  IF unvisited_children # {}
        THEN {children[k] : k \in unvisited_children}
        ELSE {children[best]}

\* select_child returning the node it was called on
select_child_returns_self(t, n) == {n}

\* select_child: the children the call can return -- any unvisited child
\* (random.choice), else the first child of maximal ucb1 (max)
select_child(t, n) ==
    LET children == t[n].children
        unvisited_children == {k \in 1..Len(children) : t[children[k]].visits = 0}
        best == CHOOSE k \in 1..Len(children) :
                    /\ \A j \in 1..Len(children) : ucb1(t, children[j]) <= ucb1(t, children[k])
                    /\ \A j \in 1..(k - 1) : ucb1(t, children[j]) < ucb1(t, children[k])
    IN  IF unvisited_children # {}
        THEN {children[k] : k \in unvisited_children}
        ELSE {children[best]}

\* update that leaves the visit count alone
update_without_visit(t, i, r) ==
    [t EXCEPT ![i].wins = @ + r]

\* update credited to the root alone
update_root_only(t, i, r) ==
    IF t[i].parent = 0 THEN [t EXCEPT ![i].visits = @ + 1, ![i].wins = @ + r] ELSE t

\* visits and wins kept as class attributes: one counter for all nodes
update_every_node(t, i, r) ==
    [j \in 1..Len(t) |-> [t[j] EXCEPT !.visits = @ + 1, !.wins = @ + r]]

\* update(result) on node i
update(t, i, r) ==
    [t EXCEPT ![i].visits = @ + 1, ![i].wins = @ + r]

\* expand that empties untried_actions instead of popping one action
expand_drops_untried(t, n, actions) ==
    LET untried == t[n].untried_actions
        call == perform_action(t[n].state, untried[Len(untried)])
    IN  Append([t EXCEPT ![n].untried_actions = <<>>,
                         ![n].state = call.receiver,
                         ![n].children = Append(@, Len(t) + 1)],
               MCTSNode(call.returned, n, actions))

\* expand that reads the last untried action without popping it
expand_keeps_action(t, n, actions) ==
    LET untried == t[n].untried_actions
        call == perform_action(t[n].state, untried[Len(untried)])
    IN  Append([t EXCEPT ![n].state = call.receiver,
                         ![n].children = Append(@, Len(t) + 1)],
               MCTSNode(call.returned, n, actions))

\* expand() on node n: the last untried action is popped and performed, the
\* new MCTSNode (given the list its get_possible_actions returned) becomes
\* the last node of the tree and the last child of n
expand(t, n, actions) ==
    LET untried == t[n].untried_actions
        action == untried[Len(untried)]
        call == perform_action(t[n].state, action)
    IN  Append([t EXCEPT ![n].untried_actions = SubSeq(untried, 1, Len(untried) - 1),
                         ![n].state = call.receiver,
                         ![n].children = Append(@, Len(t) + 1)],
               MCTSNode(call.returned, n, actions))

\* the loop condition without its test of untried_actions
selection_descends_with_untried(t, n) ==
    t[n].children # <<>>

\* the condition of the selection loop of mcts
selection_descends(t, n) ==
    t[n].untried_actions = <<>> /\ t[n].children # <<>>

-----------------------------------------------------------------------------
(* mcts(root_state, n_sim)                                                 *)

\* Queries.  The root is PokerState(my, opp, board): hero's two cards, the
\* opponent's cards known or not, and 0, 3, 4 or 5 board cards, dealt from the
\* front of the deck.  n is the number of iterations.
MaxIter == 5

\* a pair, two cards of one suit, and the same card given twice
HeroHands == {<<0, 1>>, <<4, 8>>, <<3, 3>>}

RootState(my, opp_known, nboard) ==
    LET opp == FirstFree(Range(my), IF opp_known THEN 2 ELSE 0)
        board == FirstFree(Range(my) \cup Range(opp), nboard)
    IN  PokerState(my, opp, board, <<>>)

\* The roots tried in Spec: <<opp_known, nboard>>.  The widest roots are
\* left out of Spec: the root with nothing dealt, PokerState(my), is run for
\* one iteration in SpecPreflop.
RootShapes(my) ==
    IF my[1] = my[2]
    THEN {<<TRUE, 3>>, <<TRUE, 4>>, <<TRUE, 5>>, <<FALSE, 4>>, <<FALSE, 5>>}
    ELSE (BOOLEAN \X BoardSizes) \ {<<FALSE, 0>>}

QueryInit(my, opp_known, nboard, n) ==
    /\ n_sim = n
    /\ \E acts \in get_possible_actions(RootState(my, opp_known, nboard)) :
          /\ tree = <<MCTSNode(RootState(my, opp_known, nboard), 0, acts)>>
          /\ made = <<[action |-> <<>>, sampled |-> acts]>>
    /\ iter = 0
    /\ pc = "loop"
    /\ node = 0
    /\ result = 0
    /\ estimate = <<>>
    /\ path = <<>>
    /\ passes = <<0>>
    /\ rollout = [branch |-> "none", opp |-> <<>>, board |-> <<>>]
    /\ before = <<>>
    /\ EvalIdle
    /\ StateIdle

Init ==
    \E my \in HeroHands : \E shape \in RootShapes(my) : \E n \in 1..MaxIter :
       QueryInit(my, shape[1], shape[2], n)

PreflopInit == QueryInit(<<0, 1>>, FALSE, 0, 1)

\* for _ in range(n_sim): node = root
StartIteration ==
    /\ pc = "loop"
    /\ iter < n_sim
    /\ node' = 1
    /\ path' = <<1>>
    /\ pc' = "select"
    /\ before' = [i \in 1..Len(tree) |-> <<tree[i].visits, tree[i].wins>>]
    /\ UNCHANGED <<evalVars, stateVars, tree, n_sim, iter, result, estimate, made, passes, rollout>>

\* while node.untried_actions == [] and node.children != []: node = node.select_child()
SelectChild ==
    /\ pc = "select"
    /\ selection_descends(tree, node)
    /\ \E c \in select_child(tree, node) :
          /\ node' = c
          /\ path' = Append(path, c)
    /\ UNCHANGED <<evalVars, stateVars, tree, n_sim, iter, pc, result, estimate, made, passes, rollout,
                   before>>

\* if node.untried_actions: node = node.expand()
Expand ==
    /\ pc = "select"
    /\ ~selection_descends(tree, node)
    /\ tree[node].untried_actions # <<>>
    /\ LET untried == tree[node].untried_actions
           action == untried[Len(untried)]
           call == perform_action(tree[node].state, action)
           child == Len(tree) + 1
       IN  \E acts \in get_possible_actions(call.returned) :
              /\ tree' = expand(tree, node, acts)
              /\ made' = Append(made, [action |-> action, sampled |-> acts])
              /\ passes' = Append(passes, 0)
              /\ node' = child
              /\ path' = Append(path, child)
    /\ pc' = "simulate"
    /\ UNCHANGED <<evalVars, stateVars, n_sim, iter, result, estimate, rollout, before>>

\* the node reached has no untried action and no child: nothing to expand
NoExpand ==
    /\ pc = "select"
    /\ ~selection_descends(tree, node)
    /\ tree[node].untried_actions = <<>>
    /\ pc' = "simulate"
    /\ UNCHANGED <<evalVars, stateVars, tree, n_sim, iter, node, result, estimate, made, path, passes,
                   rollout, before>>

\* result = simulate(node.state)
Simulate ==
    /\ pc = "simulate"
    /\ \E r \in simulate(tree[node].state) :
          /\ result' = r.payoff
          /\ rollout' = [branch |-> r.branch, opp |-> r.opp, board |-> r.board]
    /\ pc' = "backprop"
    /\ UNCHANGED <<evalVars, stateVars, tree, n_sim, iter, node, estimate, made, path, passes, before>>

\* while node: node.update(result); node = node.parent
\* (leaving the loop at the root ends the iteration)
Update ==
    /\ pc = "backprop"
    /\ node # 0
    /\ tree' = update(tree, node, result)
    /\ node' = tree[node].parent
    /\ IF tree[node].parent = 0
       THEN /\ pc' = "loop"
            /\ iter' = iter + 1
            /\ passes' = [i \in 1..Len(passes) |->
                             IF i \in Range(path) THEN passes[i] + 1 ELSE passes[i]]
       ELSE UNCHANGED <<pc, iter, passes>>
    /\ UNCHANGED <<evalVars, stateVars, n_sim, result, estimate, made, path, rollout, before>>

\* return root.wins / root.visits
Return ==
    /\ pc = "loop"
    /\ iter = n_sim
    /\ estimate' = <<tree[1].wins, 2 * tree[1].visits>>
    /\ pc' = "done"
    /\ UNCHANGED <<evalVars, stateVars, tree, n_sim, iter, node, result, made, path, passes, rollout,
                   before>>

Next ==
    \/ StartIteration
    \/ SelectChild
    \/ Expand
    \/ NoExpand
    \/ Simulate
    \/ Update
    \/ Return

Spec == Init /\ [][Next]_vars

SpecPreflop == PreflopInit /\ [][Next]_vars

\* mcts is one sequential loop, so a step that can be taken is taken: weak
\* fairness of every action.  For SelectChild, Expand and Simulate the
\* condition is written out, WF_vars(A) being
\* []<>~ENABLED <<A>>_vars \/ []<><<A>>_vars: SelectChild is enabled while
\* selection descends (select_child always returns a child), Expand at a node
\* with an untried action where selection has stopped, Simulate whenever
\* pc = "simulate" (get_possible_actions and simulate always return); they
\* are the only steps that stay in "select" with another node, that grow the
\* tree, and that lead from "simulate" to "backprop".
SpecFair ==
    /\ Init /\ [][Next]_vars
    /\ WF_vars(StartIteration) /\ WF_vars(NoExpand)
    /\ WF_vars(Update) /\ WF_vars(Return)
    /\ \/ []<>~(pc = "select" /\ selection_descends(tree, node))
       \/ []<><<pc = "select" /\ pc' = "select">>_vars
    /\ \/ []<>~(/\ pc = "select"
                /\ ~selection_descends(tree, node)
                /\ tree[node].untried_actions # <<>>)
       \/ []<><<pc = "select" /\ Len(tree') = Len(tree) + 1>>_vars
    /\ \/ []<>(pc # "simulate")
       \/ []<><<pc = "simulate" /\ pc' = "backprop">>_vars

-----------------------------------------------------------------------------
(* Properties                                                              *)

AtBoundary == pc \in {"loop", "done"}
HeroDistinct == tree # <<>> /\ tree[1].state.my[1] # tree[1].state.my[2]
NoDup(xs) == \A i, j \in 1..Len(xs) : i # j => xs[i] # xs[j]

\* C1: between iterations every node's visits equals the number of completed
\* iterations whose selection/expansion path contained the node, the root's
\* visits equals the number of completed iterations, and it is n_sim at return.
C1_VisitsCountPaths ==
    /\ AtBoundary =>
          /\ tree[1].visits = iter
          /\ \A i \in 1..Len(tree) : tree[i].visits = passes[i]
    /\ pc = "done" => tree[1].visits = n_sim

C1_Witness ==
    /\ pc = "done"
    /\ n_sim >= 4
    /\ \E i \in 2..Len(tree) : tree[i].visits >= 2 /\ tree[i].children # <<>>
    /\ \E i \in 2..Len(tree) : tree[i].visits = 1

\* C2: in a tree whose root has two different hero cards, every node's state
\* has my, opp, board and deck free of duplicates, pairwise disjoint, and
\* together exactly the cards of get_deck().
C2_CardGroupsPartitionDeck ==
    HeroDistinct =>
       \A i \in 1..Len(tree) :
          LET st == tree[i].state
              all == st.my \o st.opp \o st.board \o st.deck
          IN  /\ NoDup(all)
              /\ Range(all) = Range(get_deck)
              /\ Len(all) = DeckSize

C2_Witness ==
    /\ HeroDistinct
    /\ \E i \in 2..Len(tree) :
          /\ tree[i].parent # 1
          /\ tree[i].state.deck # <<>>
          /\ Len(tree[i].state.board) = 4

\* C3: every rollout payoff is 0, 0.5 or 1 (0, 1, 2 doubled); between
\* iterations every node has 0 <= wins <= visits; the returned value is a
\* fraction with positive denominator lying in [0, 1].
C3_EstimateInUnitInterval ==
    /\ tree # <<>> => result \in {0, 1, 2}
    /\ AtBoundary =>
          \A i \in 1..Len(tree) : 0 <= tree[i].wins /\ tree[i].wins <= 2 * tree[i].visits
    /\ pc = "done" =>
          /\ estimate[2] > 0
          /\ 0 <= estimate[1] /\ estimate[1] <= estimate[2]

C3_Witness ==
    /\ pc = "done"
    /\ 0 < estimate[1] /\ estimate[1] < estimate[2]
    /\ estimate[1] % 2 = 1

\* the number of k-card combinations of n cards, k = 1, 2, 3
Choose(n, k) ==
    CASE k = 1 -> n
      [] k = 2 -> (n * (n - 1)) \div 2
      [] k = 3 -> (n * (n - 1) * (n - 2)) \div 6

\* cards drawn per action at a state, by the order of the code's tests:
\* 2 while the opponent is unknown, else 3 on an empty board, else 1 on a
\* board of 3 or 4, else 0 (nothing to deal)
DrawSize(st) ==
    IF st.opp = <<>> THEN 2
    ELSE IF Len(st.board) = 0 THEN 3
    ELSE IF Len(st.board) \in {3, 4} THEN 1
    ELSE 0

\* every draw of k cards from the deck, each listed in deck order
AllDraws(st) ==
    LET k == DrawSize(st)
    IN  {d \in [1..k -> Range(st.deck)] :
            \A a, b \in 1..k : a < b =>
               \E x, y \in 1..Len(st.deck) : x < y /\ st.deck[x] = d[a] /\ st.deck[y] = d[b]}

\* C4: the list get_possible_actions returns holds pairwise different actions,
\* each made of cards of the deck, at most min(cap, C) of them for C the
\* number of draws of the stage; all C of them when C is below the cap; and
\* none when nothing is to be dealt (board of 5) or the deck is too small.
C4_ActionsDistinctAndCapped ==
    actions_out.kind = "list" =>
       LET acts == actions_out.val
           k == DrawSize(state_in)
           n == Len(state_in.deck)
           C == IF k = 0 \/ n < k THEN 0 ELSE Choose(n, k)
       IN  /\ NoDup(acts)
           /\ Len(acts) <= Min(SampleCap, C)
           /\ C < SampleCap => Range(acts) = (IF C = 0 THEN {} ELSE AllDraws(state_in))
           /\ (k = 0 \/ n < k) => acts = <<>>
           /\ \A i \in 1..Len(acts) :
                 /\ Len(acts[i]) = k
                 /\ Range(acts[i]) \subseteq Range(state_in.deck)
                 /\ NoDup(acts[i])

C4_Witness ==
    /\ actions_out.kind = "list"
    /\ Len(actions_out.val) = SampleCap
    /\ Choose(Len(state_in.deck), DrawSize(state_in)) > SampleCap
    /\ DrawSize(state_in) = 3

\* C5: no step changes the state held by an existing node (perform_action
\* leaves its receiver as it was); a child's state is its parent's with the
\* action's cards taken out of the deck and made the opponent's cards (parent's
\* opp empty) or appended to the board (otherwise); hero's cards are the
\* root's in every node.
C5_PerformActionPure ==
    /\ [][\A i \in 1..Len(tree) : i <= Len(tree') /\ tree'[i].state = tree[i].state]_vars
    /\ [](\A i \in 2..Len(tree) :
             LET par == tree[tree[i].parent].state
                 st == tree[i].state
                 a == made[i].action
             IN  /\ st.my = par.my
                 /\ st.my = tree[1].state.my
                 /\ st.deck = Filter(par.deck, Range(par.deck) \ Range(a))
                 /\ Len(st.deck) = Len(par.deck) - Len(a)
                 /\ IF par.opp = <<>>
                    THEN st.opp = a /\ st.board = par.board
                    ELSE st.opp = par.opp /\ st.board = par.board \o a)

C5_Witness ==
    \E i, j \in 2..Len(tree) :
       /\ tree[i].parent = 1
       /\ tree[1].state.opp = <<>>
       /\ tree[i].state.opp # <<>>
       /\ tree[j].parent = i
       /\ Len(tree[j].state.board) = Len(tree[i].state.board) + 1

\* C6 (as claimed): a query whose two hero cards are the same card runs no
\* iteration and returns no estimate.
C6_DuplicateHeroRejected ==
    (tree # <<>> /\ tree[1].state.my[1] = tree[1].state.my[2]) =>
       (iter = 0 /\ pc # "done" /\ estimate = <<>>)

\* C7 (as claimed): find_best_5_card_hand on fewer than 5 cards in all fails
\* with an error instead of returning a value.
C7_TooFewCardsRaises ==
    (best_out # NotCalled /\ Len(five_cards) < 5) =>
       best_out.kind \notin {"None", "tuple"}

\* the reference classifier of the claim
RefRanks(h) == {rank_value(h[i]) : i \in 1..Len(h)}
RefCount(h, r) == Cardinality({i \in 1..Len(h) : rank_value(h[i]) = r})
RefGroups(h, size) == {r \in RefRanks(h) : RefCount(h, r) = size}
RefMax(S) == CHOOSE x \in S : \A y \in S : y <= x
RefMin(S) == CHOOSE x \in S : \A y \in S : x <= y
RefFlush(h) == \A i, j \in 1..Len(h) : suit_str(h[i]) = suit_str(h[j])
RefWheel(h) == RefRanks(h) = {0, 1, 2, 3, 12}
RefRun(h) == Cardinality(RefRanks(h)) = 5 /\ RefMax(RefRanks(h)) - RefMin(RefRanks(h)) = 4
RefStraight(h) == RefRun(h) \/ RefWheel(h)
RefHigh(h) == IF RefRun(h) THEN RefMax(RefRanks(h)) ELSE 3
Reference(h) ==
    IF RefStraight(h) /\ RefFlush(h) THEN <<9, RefHigh(h)>>
    ELSE IF RefGroups(h, 4) # {}
         THEN <<8, RefMax(RefGroups(h, 4)), RefMax(RefGroups(h, 1))>>
    ELSE IF RefGroups(h, 3) # {} /\ RefGroups(h, 2) # {}
         THEN <<7, RefMax(RefGroups(h, 3)), RefMax(RefGroups(h, 2))>>
    ELSE IF RefFlush(h) THEN <<6>> \o SetSortedDesc(RefRanks(h))
    ELSE IF RefStraight(h) THEN <<5, RefHigh(h)>>
    ELSE IF RefGroups(h, 3) # {}
         THEN <<4, RefMax(RefGroups(h, 3))>> \o SetSortedDesc(RefGroups(h, 1))
    ELSE IF Cardinality(RefGroups(h, 2)) = 2
         THEN <<3, RefMax(RefGroups(h, 2)), RefMin(RefGroups(h, 2)),
                RefMax(RefGroups(h, 1))>>
    ELSE IF RefGroups(h, 2) # {}
         THEN <<2, RefMax(RefGroups(h, 2))>> \o SetSortedDesc(RefGroups(h, 1))
    ELSE <<1>> \o SetSortedDesc(RefRanks(h))

\* C8 (as claimed): on 5 different cards evaluate_hand returns the category
\* and tiebreaks of the first matching rule of the priority list; on any other
\* number of cards it raises.
C8_EvaluateMatchesReference ==
    eval_out # NotCalled =>
       IF Len(five_cards) = 5
       THEN eval_out = Tuple(Reference(five_cards))
       ELSE eval_out = ValueError

\* C9: check_straight reports (True, rank value of 5) for the ranks 2 3 4 5 A
\* and (False, None) for every other rank set with an Ace that is not five
\* consecutive ranks; the wheel evaluates to (9, 3) or (5, 3), below every
\* other straight (flush) of its category.
C9_AceLowOnlyInWheel ==
    /\ straight_out # NotCalled =>
          /\ RefWheel(five_cards) =>
                straight_out.val = [is_straight |-> TRUE, high |-> 3]
          /\ (12 \in RefRanks(five_cards) /\ ~RefWheel(five_cards) /\ ~RefRun(five_cards)) =>
                straight_out.val = [is_straight |-> FALSE, high |-> -1]
          /\ RefRun(five_cards) =>
                straight_out.val = [is_straight |-> TRUE, high |-> RefMax(RefRanks(five_cards))]
    /\ (eval_out # NotCalled /\ Len(five_cards) = 5) =>
          LET cat == IF RefFlush(five_cards) THEN 9 ELSE 5
          IN  /\ RefWheel(five_cards) => eval_out.val = <<cat, 3>>
              /\ RefRun(five_cards) =>
                    /\ eval_out.val[1] = cat
                    /\ TupleLess(<<cat, 3>>, eval_out.val)

C9_Witness ==
    /\ RefWheel(five_cards)
    /\ RefFlush(five_cards)
    /\ Len(five_cards) = 5
    /\ straight_out # NotCalled
    /\ eval_out = Tuple(<<9, 3>>)

\* C10: in a query whose root has two different hero cards and the deck that
\* PokerState builds from get_deck(), no rollout takes a deck-underflow return.
C10_NoDeckUnderflow ==
    HeroDistinct => rollout.branch \in {"none", "showdown"}

C10_Witness ==
    /\ HeroDistinct
    /\ rollout.branch = "showdown"
    /\ pc = "backprop"
    /\ Len(path) >= 3
    /\ node = path[Len(path)]
    /\ tree[1].state.opp = <<>>

\* C11: every node's children and untried actions together number the actions
\* sampled at its creation; a step either leaves both lists of a node alone
\* or pops the last untried action and appends one new child; a node created
\* with no action never has a child; the children of a node were made by
\* pairwise different actions, each applied to the node's state.
C11_NodeLifecycle ==
    /\ [](\A i \in 1..Len(tree) :
             LET children == tree[i].children
                 untried == tree[i].untried_actions
                 sampled == made[i].sampled
             IN  /\ Len(children) + Len(untried) = Len(sampled)
                 /\ untried = SubSeq(sampled, 1, Len(untried))
                 /\ sampled = <<>> => children = <<>>
                 /\ \A a, b \in 1..Len(children) :
                       a # b => made[children[a]].action # made[children[b]].action
                 /\ \A a \in 1..Len(children) :
                       /\ tree[children[a]].parent = i
                       /\ made[children[a]].action = sampled[Len(sampled) - a + 1]
                       /\ tree[children[a]].state =
                             perform_action(tree[i].state, made[children[a]].action).returned)
    /\ [][\A i \in 1..Len(tree) :
             /\ i <= Len(tree')
             /\ LET u == tree[i].untried_actions
                    c == tree[i].children
                    u2 == tree'[i].untried_actions
                    c2 == tree'[i].children
                IN  \/ u2 = u /\ c2 = c
                    \/ /\ u # <<>>
                       /\ u2 = SubSeq(u, 1, Len(u) - 1)
                       /\ c2 = Append(c, Len(tree'))
                       /\ Len(tree') = Len(tree) + 1]_vars

C11_Witness ==
    /\ AtBoundary
    /\ \E i \in 2..Len(tree) :
          /\ tree[i].children # <<>>
          /\ tree[i].untried_actions = <<>>
    /\ \E i \in 2..Len(tree) :
          /\ tree[i].children = <<>>
          /\ tree[i].untried_actions # <<>>
    /\ \E i \in 2..Len(tree) : made[i].sampled = <<>> /\ tree[i].visits >= 2

\* C12: a node that still has untried actions has only children with at most
\* one visit and no children of their own; and selection moves from a node to
\* one of its children only when the node has no untried action.
C12_DescendOnlyWhenFullyExpanded ==
    /\ [](\A i \in 1..Len(tree) :
             tree[i].untried_actions # <<>> =>
                \A a \in 1..Len(tree[i].children) :
                   /\ tree[tree[i].children[a]].visits <= 1
                   /\ tree[tree[i].children[a]].children = <<>>)
    /\ [][(pc = "select" /\ pc' = "select" /\ node' # node) =>
             /\ tree[node].untried_actions = <<>>
             /\ node' \in Range(tree[node].children)]_vars

C12_Witness ==
    /\ pc = "select"
    /\ iter >= 3
    /\ node # 1
    /\ tree[node].untried_actions # <<>>
    /\ tree[node].children # <<>>
    /\ tree[tree[node].children[1]].visits = 1

\* the parent chain of node i, up to the root
RECURSIVE Chain(_)
Chain(i) == IF i = 0 THEN {} ELSE {i} \cup Chain(tree[i].parent)

\* <<visits, wins>> of node i when the iteration began (a node made in the
\* iteration began at <<0, 0>>)
Before(i) == IF i <= Len(before) THEN before[i] ELSE <<0, 0>>

\* C13: when an iteration has ended, every node on the parent chain from the
\* node the rollout started at up to the root has one visit more than when the
\* iteration began and the rollout's payoff more in wins, and every other
\* node has the visits and wins it had; only the backpropagation steps change
\* visits or wins, each for the one node it is at.
C13_BackpropagationFrame ==
    /\ []((pc = "loop" /\ iter > 0) =>
             \A i \in 1..Len(tree) :
                IF i \in Chain(path[Len(path)])
                THEN /\ tree[i].visits = Before(i)[1] + 1
                     /\ tree[i].wins = Before(i)[2] + result
                ELSE /\ tree[i].visits = Before(i)[1]
                     /\ tree[i].wins = Before(i)[2])
    /\ [][\A i \in 1..Len(tree) :
             (pc # "backprop" \/ i # node) =>
                /\ tree'[i].visits = tree[i].visits
                /\ tree'[i].wins = tree[i].wins]_vars

C13_Witness ==
    /\ pc = "loop"
    /\ iter >= 4
    /\ result = 1
    /\ Len(path) = 3
    /\ \E i \in 2..Len(tree) : i \notin Range(path) /\ tree[i].wins = 2
    /\ \E i \in 2..Len(tree) : i \in Range(path) /\ tree[i].visits >= 2

\* the deal stage of a state: 0 nothing dealt, 1 opponent dealt, 2 flop,
\* 3 turn, 4 river; -1 for a state that is none of them
Stage(st) ==
    IF st.opp = <<>> /\ st.board = <<>> THEN 0
    ELSE IF Len(st.opp) = 2 /\ Len(st.board) = 0 THEN 1
    ELSE IF Len(st.opp) = 2 /\ Len(st.board) \in {3, 4, 5} THEN Len(st.board) - 1
    ELSE -1

RECURSIVE Depth(_)
Depth(i) == IF tree[i].parent = 0 THEN 0 ELSE 1 + Depth(tree[i].parent)

CompletesDeal(st, r) ==
    LET kept == Len(st.board)
    IN  /\ r.branch = "showdown"
        /\ Len(r.opp) = 2
        /\ Len(r.board) = 5
        /\ IF st.opp # <<>> THEN r.opp = st.opp
           ELSE Range(r.opp) \subseteq Range(st.deck)
        /\ SubSeq(r.board, 1, kept) = st.board
        /\ \A k \in (kept + 1)..5 : r.board[k] \in Range(st.deck)
        /\ NoDup(st.my \o r.opp \o r.board)

Remaining ==
    (n_sim - iter) * 20
    + (CASE pc = "loop" -> 19
         [] pc = "select" -> 14 - Depth(node)
         [] pc = "simulate" -> 9
         [] pc = "backprop" -> IF node = 0 THEN 0 ELSE 2 + Depth(node)
         [] pc = "done" -> 0)

\* the code has a next step to take
CanStep ==
    CASE pc = "loop" -> iter <= n_sim
      [] pc = "select" ->
            \/ selection_descends(tree, node) /\ select_child(tree, node) # {}
            \/ ~selection_descends(tree, node)
      [] pc = "simulate" -> simulate(tree[node].state) # {}
      [] pc = "backprop" -> node # 0
      [] pc = "done" -> FALSE

ChildIndex(n, c) == CHOOSE k \in 1..Len(tree[n].children) : tree[n].children[k] = c

\* C17: when selection moves from a node whose children all have a visit, it
\* moves to the child whose UCB1, wins/visits + sqrt(2) * sqrt(ln(parent
\* visits) / visits), is greatest, and to the first such child of the child
\* list when several have the greatest value.
C17_SelectsFirstMaxUcb1 ==
    [][(pc = "select" /\ pc' = "select" /\ node' # node
        /\ \A j \in 1..Len(tree[node].children) : tree[tree[node].children[j]].visits >= 1) =>
          LET children == tree[node].children
              k == ChildIndex(node, node')
          IN  /\ node' \in Range(children)
              /\ \A j \in 1..Len(children) : ucb1(tree, children[j]) <= ucb1(tree, node')
              /\ \A j \in 1..(k - 1) : ucb1(tree, children[j]) < ucb1(tree, node')]_vars

\* selection has just moved to the second child, whose UCB1 is above the
\* first child's
C17_Witness ==
    /\ pc = "select"
    /\ Len(path) >= 2
    /\ node = path[Len(path)]
    /\ LET parent == path[Len(path) - 1]
       IN  /\ Len(tree[parent].children) = 2
           /\ node = tree[parent].children[2]
           /\ tree[tree[parent].children[1]].visits >= 2
           /\ ucb1(tree, node) > ucb1(tree, tree[parent].children[1])

\* C18: while mcts is selecting, and between iterations, every node but the
\* root has a visit and so has its parent; so wherever select_child is called
\* no child is unvisited, no ucb1 is the infinite one, and ucb1 divides by a
\* positive visits and takes the logarithm of a positive parent.visits.
C18_ChildrenVisitedBeforeSelection ==
    /\ (pc = "select" \/ AtBoundary) =>
          \A i \in 2..Len(tree) :
             tree[i].visits >= 1 /\ tree[tree[i].parent].visits >= 1
    /\ (pc = "select" /\ selection_descends(tree, node)) =>
          /\ tree[node].visits >= 1
          /\ \A k \in 1..Len(tree[node].children) :
                /\ tree[tree[node].children[k]].visits >= 1
                /\ ucb1(tree, tree[node].children[k]) # Infinity
          /\ select_child(tree, node) \subseteq Range(tree[node].children)

\* select_child is about to be called on a node below the root
C18_Witness ==
    /\ pc = "select"
    /\ node # 1
    /\ selection_descends(tree, node)
    /\ Len(tree[node].children) = 2

\* C19: in a query with n_sim at most the number of actions sampled at the
\* root, selection never leaves the root, every node but the root is a child
\* of the root with no children and at most one visit, and at the return the
\* root has n_sim children with one visit each, the tree n_sim + 1 nodes.  For
\* a two-card hand on the 52-card deck the root samples min(1000, C(50, 2)) =
\* 1000 actions.
C19_ShallowTreeWithinRootActions ==
    /\ Min(1000, Choose(50, 2)) = 1000
    /\ (tree # <<>> /\ n_sim <= Len(made[1].sampled)) =>
          /\ pc = "select" => node = 1
          /\ Len(path) <= 2
          /\ \A i \in 2..Len(tree) :
                /\ tree[i].parent = 1
                /\ tree[i].children = <<>>
                /\ tree[i].visits <= 1
                /\ Depth(i) = 1
          /\ pc = "done" =>
                /\ Len(tree[1].children) = n_sim
                /\ Len(tree) = n_sim + 1
                /\ \A k \in 1..n_sim : tree[tree[1].children[k]].visits = 1

C19_Witness ==
    /\ pc = "done"
    /\ n_sim = 2
    /\ Len(made[1].sampled) = 2
    /\ Len(tree[1].children) = 2
    /\ tree[1].state.opp = <<>>
    /\ tree[3].untried_actions # <<>>

\* the sums of visits and of wins over the children of node i
RECURSIVE SumOver(_, _)
SumOver(children, field) ==
    IF children = <<>> THEN 0
    ELSE (IF field = "visits" THEN tree[Head(children)].visits ELSE tree[Head(children)].wins)
         + SumOver(Tail(children), field)

\* C20: between iterations, a root that sampled an action has the visits and
\* the wins of its children summed, and every other node that sampled an
\* action at its creation has one visit more than its children together.
C20_VisitConservation ==
    AtBoundary =>
       /\ made[1].sampled # <<>> =>
             /\ tree[1].visits = SumOver(tree[1].children, "visits")
             /\ tree[1].wins = SumOver(tree[1].children, "wins")
       /\ \A i \in 2..Len(tree) :
             made[i].sampled # <<>> =>
                tree[i].visits = 1 + SumOver(tree[i].children, "visits")

C20_Witness ==
    /\ AtBoundary
    /\ made[1].sampled # <<>>
    /\ tree[1].visits >= 4
    /\ tree[1].wins >= 2
    /\ \E i \in 2..Len(tree) : Len(tree[i].children) = 2 /\ tree[i].visits = 3

=============================================================================
